---- MODULE Spec2Model ----
(***************************************************************************)
(* Model of chatdemo.py: the MessageBuffer (per-room bounded message cache *)
(* plus the set of pending long-poll Futures) and the operations the       *)
(* request handlers invoke on the global buffer.                           *)
(***************************************************************************)
EXTENDS Integers, Sequences, FiniteSets, TLC

VARIABLES room, fut, sub, cancelled, published, nextId, last, pub, req, client

vars == <<room, fut, sub, cancelled, published, nextId, last, pub, req, client>>

\* the state only some specifications follow
aux == <<pub, req, client>>

----------------------------------------------------------------------------
(* Bounds of the exploration *)

\* Spec: number of Futures created, of message ids generated, longest batch
MaxHandles == 2
MaxMsgs == 3
MaxBatch == 2
\* SpecCache: number of messages published beyond cache_size, of Futures created
MaxOver == 6
MaxCacheHandles == 1
\* SpecLive: number of Futures created, of message ids generated
MaxLiveHandles == 2
MaxLiveMsgs == 2
\* SpecSteps: number of Futures created, of message ids generated
MaxStepHandles == 2
MaxStepMsgs == 2
\* SpecReq: number of long-poll requests, of message ids generated
MaxReqs == 2
MaxReqMsgs == 2
\* SpecClient: number of polls of the client, of messages published beyond
\* cache_size, of polls the client closes
MaxPolls == 2
MaxClientOver == 2
MaxCloses == 1

(* Program constants and input domains *)

\* self.cache_size
cache_size == 200

\* room names are dictionary keys compared exactly
Rooms == {"lobby", "Lobby"}
CacheRoom == "lobby"

\* message bodies (self.get_argument("body"))
Bodies == {"hi"}

\* cursor=None; message ids are generated from 1 upwards, so 0 is never an id
None == 0

----------------------------------------------------------------------------
(* Data *)

\* a message as MessageNewHandler.post builds it; the buffer reads only "id",
\* and "timestamp" (the wall clock, carried along unread) is left out
Message(i, b) == [id |-> i, body |-> b]

\* a batch of messages with fresh consecutive ids (str(uuid.uuid4()) is unique)
NewBatch(first, bodies) == [i \in 1..Len(bodies) |-> Message(first + i - 1, bodies[i])]

\* Future(): not done, no result; sets counts the calls of set_result on it
Future == [done |-> FALSE, result |-> <<>>, sets |-> 0]

\* future.set_result(v)
set_result(f, v) == [done |-> TRUE, result |-> v, sets |-> f.sets + 1]

\* {'cache': [], 'waiters': set()}
EmptyRoom == [cache |-> <<>>, waiters |-> {}]

----------------------------------------------------------------------------
(* MessageBuffer.create_new_room *)

create_new_room_reset(rm, r) ==
    [x \in DOMAIN rm \cup {r} |-> IF x = r THEN EmptyRoom ELSE rm[x]]

create_new_room(rm, r) ==
    IF r \in DOMAIN rm
    THEN rm
    ELSE [x \in DOMAIN rm \cup {r} |-> IF x = r THEN EmptyRoom ELSE rm[x]]

----------------------------------------------------------------------------
(* MessageBuffer.wait_for_messages *)

\* `if cursor:' : None and the empty string are both "no cursor"
cursor_given_always(cursor) == TRUE

cursor_given(cursor) == cursor # None

\* position of the entry the loop over reversed(cache) breaks at: the last
\* entry whose id equals the cursor, 0 when the loop runs to the end
break_at(cache, cursor) ==
    LET hits == {i \in 1..Len(cache) : cache[i].id = cursor}
    IN  IF hits = {} THEN 0 ELSE CHOOSE i \in hits : \A j \in hits : j <= i

\* new_count when the loop ends: one for each entry passed before the break
new_count_inclusive(cache, cursor) ==
    IF break_at(cache, cursor) = 0
    THEN Len(cache)
    ELSE Len(cache) - break_at(cache, cursor) + 1

new_count_miss_zero(cache, cursor) ==
    IF break_at(cache, cursor) = 0 THEN 0 ELSE Len(cache) - break_at(cache, cursor)

new_count(cache, cursor) == Len(cache) - break_at(cache, cursor)

\* Python's s[-n:] : the last n entries; the whole list when n = 0 or n > len(s)
last_n_oldest(s, n) == SubSeq(s, 1, IF n < Len(s) THEN n ELSE Len(s))

last_n(s, n) ==
    IF n = 0 \/ n >= Len(s) THEN s ELSE SubSeq(s, Len(s) - n + 1, Len(s))

\* self.room[room]['waiters'].add(result_future)
add_waiter_none(ws, h) == ws

add_waiter(ws, h) == ws \cup {h}

----------------------------------------------------------------------------
(* MessageBuffer.cancel_wait *)

\* self.room[room]['waiters'].remove(future), once the future is known to be in
remove_waiter_keep(ws, h) == ws

remove_waiter(ws, h) == ws \ {h}

----------------------------------------------------------------------------
(* MessageBuffer.new_messages *)

\* for future in waiters: future.set_result(messages)
resolve_waiters_history(fs, ws, cache, messages) ==
    [h \in DOMAIN fs |-> IF h \in ws THEN set_result(fs[h], cache \o messages) ELSE fs[h]]

resolve_waiters_all(fs, ws, cache, messages) ==
    [h \in DOMAIN fs |-> IF ~fs[h].done THEN set_result(fs[h], messages) ELSE fs[h]]

resolve_waiters(fs, ws, cache, messages) ==
    [h \in DOMAIN fs |-> IF h \in ws THEN set_result(fs[h], messages) ELSE fs[h]]

\* self.room[room]['waiters'] = set()
waiters_after_publish_keep(ws) == ws

waiters_after_publish(ws) == {}

\* if len(cache) > self.cache_size: cache = cache[-self.cache_size:]
trim_cache_never(cache) == cache

trim_cache_oldest(cache) ==
    IF Len(cache) > cache_size THEN SubSeq(cache, 1, cache_size) ELSE cache

trim_cache(cache) ==
    IF Len(cache) > cache_size THEN last_n(cache, cache_size) ELSE cache

----------------------------------------------------------------------------
(* State                                                                   *)
(*   room       self.room: room name -> its cache and its set of waiters   *)
(*   fut        the Futures wait_for_messages has created, in order; a     *)
(*              handle is an index of fut                                  *)
(*   sub        per handle: the room and cursor of its wait_for_messages   *)
(*              call, and whether the call added it to the waiters         *)
(*   cancelled  the handles cancel_wait has resolved                       *)
(*   published  per room: every message ever passed to new_messages        *)
(*   nextId     the next fresh message id                                  *)
(*   last       the last operation and how it ended                        *)
(*   pub        the call of new_messages that is under way, when its lines *)
(*              are followed one by one (SpecSteps)                        *)
(*   req        per handle: the MessageUpdatesHandler request that holds   *)
(*              it (SpecReq)                                               *)
(*   client     one browser that polls a room again and again (SpecClient) *)

\* what the last operation was and how it ended
Op(op, r, h, cursor, msgs, err) ==
    [op |-> op, room |-> r, h |-> h, cursor |-> cursor, msgs |-> msgs, err |-> err]

\* no new_messages is under way
NoPublish == [pc |-> "idle", room |-> "", msgs |-> << >>, todo |-> {}, resolved |-> {}]

\* the browser has not loaded the page yet
NoClient ==
    [state |-> "off", start |-> 0, cursor |-> None, got |-> << >>, h |-> 0,
     closing |-> {}, closes |-> 0,
     since |-> 0, in_time |-> TRUE, in_reach |-> TRUE]

Init ==
    /\ room = << >>
    /\ fut = << >>
    /\ sub = << >>
    /\ cancelled = {}
    /\ published = [r \in Rooms |-> << >>]
    /\ nextId = 1
    /\ last = Op("init", "", 0, None, << >>, "none")
    /\ pub = NoPublish
    /\ req = << >>
    /\ client = NoClient

Handles == DOMAIN fut

\* MainHandler.get: without a room argument nothing is done; else the room is
\* made sure of and its cache is rendered
MainHandlerGet(r) ==
    /\ r # ""
    /\ room' = create_new_room(room, r)
    /\ last' = Op("render", r, 0, None, create_new_room(room, r)[r].cache, "none")
    /\ UNCHANGED <<fut, sub, cancelled, published, nextId>>

\* MessageBuffer.wait_for_messages(room, cursor): the Future it returns is the
\* next entry of fut
WaitForMessages(r, cursor) ==
    LET rm1 == create_new_room(room, r)
        h == Len(fut) + 1
        cache == rm1[r].cache
        n == IF cursor_given(cursor) THEN new_count(cache, cursor) ELSE 0
    IN  /\ IF n # 0
           THEN /\ fut' = Append(fut, set_result(Future, last_n(cache, n)))
                /\ room' = rm1
           ELSE /\ fut' = Append(fut, Future)
                /\ room' = [rm1 EXCEPT ![r].waiters = add_waiter(@, h)]
        /\ sub' = Append(sub, [room |-> r, cursor |-> cursor, waiter |-> (n = 0)])
        /\ last' = Op("wait_for_messages", r, h, cursor, << >>, "none")
        /\ UNCHANGED <<cancelled, published, nextId>>

\* MessageBuffer.cancel_wait(room, future), as on_connection_close calls it:
\* with the room and the Future of one request.  set.remove raises KeyError
\* when the future is not in the set, before anything is changed.
CancelWait(h) ==
    LET r == sub[h].room
    IN  IF r \notin DOMAIN room \/ h \notin room[r].waiters
        THEN /\ last' = Op("cancel_wait", r, h, None, << >>, "KeyError")
             /\ UNCHANGED <<room, fut, sub, cancelled, published, nextId>>
        ELSE /\ room' = [room EXCEPT ![r].waiters = remove_waiter(@, h)]
             /\ fut' = [fut EXCEPT ![h] = set_result(@, << >>)]
             /\ cancelled' = cancelled \cup {h}
             /\ last' = Op("cancel_wait", r, h, None, << >>, "none")
             /\ UNCHANGED <<sub, published, nextId>>

\* MessageBuffer.new_messages(room, messages)
NewMessages(r, messages) ==
    LET rm1 == create_new_room(room, r)
        ws == rm1[r].waiters
    IN  /\ fut' = resolve_waiters(fut, ws, rm1[r].cache, messages)
        /\ room' = [rm1 EXCEPT ![r] = [waiters |-> waiters_after_publish(ws),
                                       cache |-> trim_cache(rm1[r].cache \o messages)]]
        /\ published' = [published EXCEPT ![r] = @ \o messages]
        /\ nextId' = nextId + Len(messages)
        /\ last' = Op("new_messages", r, 0, None, messages, "none")
        /\ UNCHANGED <<sub, cancelled>>

----------------------------------------------------------------------------
(* Spec: two rooms, few messages *)

\* the bodies of a batch of one message (MessageNewHandler.post) or more
BodySeqs == UNION {[1..n -> Bodies] : n \in 1..MaxBatch}

\* a cursor is absent or the id of a message in the cache of the room; for a
\* room without messages it may be an id no message has (SpecCache and
\* SpecClient poll a room that has messages with such a cursor)
Cursors(r) ==
    {None}
        \cup (IF r \in DOMAIN room /\ room[r].cache # << >>
              THEN {room[r].cache[i].id : i \in 1..Len(room[r].cache)}
              ELSE {MaxMsgs + 1})

DoRender == (\E r \in Rooms \cup {""} : MainHandlerGet(r)) /\ UNCHANGED aux

DoSubscribe ==
    /\ Len(fut) < MaxHandles
    /\ \E r \in Rooms : \E c \in Cursors(r) : WaitForMessages(r, c)
    /\ UNCHANGED aux

DoCancel == (\E h \in Handles : CancelWait(h)) /\ UNCHANGED aux

DoPublish ==
    \E r \in Rooms, bs \in BodySeqs :
        /\ nextId - 1 + Len(bs) <= MaxMsgs
        /\ NewMessages(r, NewBatch(nextId, bs))
        /\ UNCHANGED aux

Next == DoRender \/ DoSubscribe \/ DoCancel \/ DoPublish

Spec == Init /\ [][Next]_vars

----------------------------------------------------------------------------
(* SpecCache: one room filled beyond cache_size *)

\* batches of one message (as MessageNewHandler.post publishes), of two, and
\* one batch longer than the whole cache
CacheBatchSizes == {1, 2, cache_size + 1}

CacheBatch(n) == NewBatch(nextId, [i \in 1..n |-> "hi"])

\* no cursor, the first id ever generated (evicted by then), the oldest and the
\* newest id still cached, and an id that was never generated
CacheCursors ==
    {None, 1, cache_size + MaxOver + 1,
     room[CacheRoom].cache[1].id,
     room[CacheRoom].cache[Len(room[CacheRoom].cache)].id}

CachePublish ==
    \E n \in CacheBatchSizes :
        /\ nextId - 1 + n <= cache_size + MaxOver
        /\ NewMessages(CacheRoom, CacheBatch(n))
        /\ UNCHANGED aux

\* clients poll once the cache is full
CacheSubscribe ==
    /\ Len(fut) < MaxCacheHandles
    /\ CacheRoom \in DOMAIN room
    /\ Len(room[CacheRoom].cache) = cache_size
    /\ \E c \in CacheCursors : WaitForMessages(CacheRoom, c)
    /\ UNCHANGED aux

CacheCancel == (\E h \in Handles : CancelWait(h)) /\ UNCHANGED aux

NextCache == CachePublish \/ CacheSubscribe \/ CacheCancel

SpecCache == Init /\ [][NextCache]_vars

----------------------------------------------------------------------------
(* SpecLive: every pending long-poll is eventually published to or cancelled *)

LiveCursors(r) ==
    {None, MaxLiveMsgs + 1}
        \cup (IF r \in DOMAIN room
              THEN {room[r].cache[i].id : i \in 1..Len(room[r].cache)}
              ELSE {})

LiveSubscribe ==
    /\ Len(fut) < MaxLiveHandles
    /\ \E r \in Rooms : \E c \in LiveCursors(r) : WaitForMessages(r, c)
    /\ UNCHANGED aux

LiveCancelOf(h) == CancelWait(h) /\ UNCHANGED aux

LiveCancel == \E h \in Handles : LiveCancelOf(h)

LivePublishTo(r) ==
    /\ nextId - 1 + 1 <= MaxLiveMsgs
    /\ NewMessages(r, NewBatch(nextId, <<"hi">>))
    /\ UNCHANGED aux

LivePublish == \E r \in Rooms : LivePublishTo(r)

NextLive == LiveSubscribe \/ LiveCancel \/ LivePublish

\* what ends the wait of handle h: the client of the request goes away
\* (on_connection_close) or somebody posts to the room it polls
Resolution(h) ==
    /\ h \in Handles
    /\ ~fut[h].done
    /\ (LiveCancelOf(h) \/ LivePublishTo(sub[h].room))

SpecLive ==
    /\ Init
    /\ [][NextLive]_vars
    /\ \A h \in 1..MaxLiveHandles : WF_vars(Resolution(h))

----------------------------------------------------------------------------
(* SpecSteps: new_messages followed line by line.  The IOLoop runs handlers *)
(* one at a time, so no other operation starts while a call is under way.   *)

\* lines 64-65: the room is made sure of; the loop is about to iterate the
\* room's waiters
PublishBegin(r, messages) ==
    /\ pub.pc = "idle"
    /\ room' = create_new_room(room, r)
    /\ pub' = [pc |-> "resolve", room |-> r, msgs |-> messages,
               todo |-> create_new_room(room, r)[r].waiters, resolved |-> {}]
    /\ nextId' = nextId + Len(messages)
    /\ UNCHANGED <<fut, sub, cancelled, published, last, req, client>>

\* lines 66-67: one iteration of the loop, on any waiter not yet visited (a
\* set is iterated in no particular order)
PublishResolve ==
    /\ pub.pc = "resolve"
    /\ \E h \in pub.todo :
          /\ fut' = resolve_waiters(fut, {h}, room[pub.room].cache, pub.msgs)
          /\ pub' = [pub EXCEPT !.todo = @ \ {h}, !.resolved = @ \cup {h}]
    /\ UNCHANGED <<room, sub, cancelled, published, nextId, last, req, client>>

\* line 68, when the loop is over
PublishClear ==
    /\ pub.pc = "resolve"
    /\ pub.todo = {}
    /\ room' = [room EXCEPT ![pub.room].waiters = waiters_after_publish(@)]
    /\ pub' = [pub EXCEPT !.pc = "extend"]
    /\ UNCHANGED <<fut, sub, cancelled, published, nextId, last, req, client>>

\* line 69
PublishExtend ==
    /\ pub.pc = "extend"
    /\ room' = [room EXCEPT ![pub.room].cache = @ \o pub.msgs]
    /\ published' = [published EXCEPT ![pub.room] = @ \o pub.msgs]
    /\ pub' = [pub EXCEPT !.pc = "trim"]
    /\ UNCHANGED <<fut, sub, cancelled, nextId, last, req, client>>

\* lines 70-71, and the call returns
PublishTrim ==
    /\ pub.pc = "trim"
    /\ room' = [room EXCEPT ![pub.room].cache = trim_cache(@)]
    /\ last' = Op("new_messages", pub.room, 0, None, pub.msgs, "none")
    /\ pub' = NoPublish
    /\ UNCHANGED <<fut, sub, cancelled, published, nextId, req, client>>

StepCursors(r) ==
    {None, MaxStepMsgs + 1}
        \cup (IF r \in DOMAIN room
              THEN {room[r].cache[i].id : i \in 1..Len(room[r].cache)}
              ELSE {})

StepSubscribe ==
    /\ pub.pc = "idle"
    /\ Len(fut) < MaxStepHandles
    /\ \E r \in Rooms : \E c \in StepCursors(r) : WaitForMessages(r, c)
    /\ UNCHANGED aux

StepCancel ==
    /\ pub.pc = "idle"
    /\ \E h \in Handles : CancelWait(h)
    /\ UNCHANGED aux

StepPublish ==
    \E r \in Rooms, bs \in BodySeqs :
        /\ nextId - 1 + Len(bs) <= MaxStepMsgs
        /\ PublishBegin(r, NewBatch(nextId, bs))

NextSteps ==
    \/ StepSubscribe
    \/ StepCancel
    \/ StepPublish
    \/ PublishResolve
    \/ PublishClear
    \/ PublishExtend
    \/ PublishTrim

SpecSteps == Init /\ [][NextSteps]_vars

----------------------------------------------------------------------------
(* SpecReq: the long-poll requests of MessageUpdatesHandler.  A request is  *)
(* suspended at `yield self.future' until the IOLoop runs the callback that *)
(* the resolution of the Future scheduled.  The client may close its socket *)
(* first: the stream is closed from then on, and the IOLoop calls           *)
(* on_connection_close in a later turn; a publish or the resumption of the  *)
(* request may run between the two.                                         *)

\* the request that has not written anything: stream_closed is what
\* stream.closed() answers, closed is whether on_connection_close has run
Request(state) ==
    [state |-> state, stream_closed |-> FALSE, closed |-> FALSE,
     written |-> FALSE, body |-> << >>]

\* MessageUpdatesHandler.post up to the yield; a Future that is already done
\* is not waited for, and the response is written at once
UpdatesPost(r, cursor) ==
    /\ WaitForMessages(r, cursor)
    /\ req' = Append(req,
                IF fut'[Len(fut')].done
                THEN [Request("finished") EXCEPT !.written = TRUE,
                                                 !.body = fut'[Len(fut')].result]
                ELSE Request("suspended"))

\* the client closes the socket of a request that waits: stream.closed() is
\* true from now on, on_connection_close has not been called yet
StreamClose(h) ==
    /\ req[h].state = "suspended"
    /\ ~req[h].stream_closed
    /\ req' = [req EXCEPT ![h].stream_closed = TRUE]
    /\ last' = Op("stream_close", sub[h].room, h, None, << >>, "none")
    /\ UNCHANGED <<room, fut, sub, cancelled, published, nextId>>

\* MessageUpdatesHandler.on_connection_close: called once for a closed stream,
\* whether the request still waits or has returned already
OnConnectionClose(h) ==
    /\ req[h].stream_closed
    /\ ~req[h].closed
    /\ CancelWait(h)
    /\ req' = [req EXCEPT ![h].closed = TRUE]

\* MessageUpdatesHandler.post from the yield on, once the Future is done:
\* nothing is written to a closed stream
UpdatesResume(h) ==
    /\ req[h].state = "suspended"
    /\ fut[h].done
    /\ req' = [req EXCEPT ![h] =
                IF req[h].stream_closed
                THEN [@ EXCEPT !.state = "finished"]
                ELSE [@ EXCEPT !.state = "finished", !.written = TRUE,
                               !.body = fut[h].result]]
    /\ last' = Op("resume", sub[h].room, h, None, fut[h].result, "none")
    /\ UNCHANGED <<room, fut, sub, cancelled, published, nextId>>

ReqCursors(r) ==
    {None, MaxReqMsgs + 1}
        \cup (IF r \in DOMAIN room
              THEN {room[r].cache[i].id : i \in 1..Len(room[r].cache)}
              ELSE {})

ReqPost ==
    /\ Len(fut) < MaxReqs
    /\ \E r \in Rooms : \E c \in ReqCursors(r) : UpdatesPost(r, c)
    /\ UNCHANGED <<pub, client>>

ReqStreamClose == \E h \in Handles : StreamClose(h) /\ UNCHANGED <<pub, client>>

ReqClose == \E h \in Handles : OnConnectionClose(h) /\ UNCHANGED <<pub, client>>

ReqResume == \E h \in Handles : UpdatesResume(h) /\ UNCHANGED <<pub, client>>

\* MessageNewHandler.post: one new message
ReqPublish ==
    \E r \in Rooms :
        /\ nextId - 1 + 1 <= MaxReqMsgs
        /\ NewMessages(r, NewBatch(nextId, <<"hi">>))
        /\ UNCHANGED aux

NextReq == ReqPost \/ ReqStreamClose \/ ReqClose \/ ReqResume \/ ReqPublish

SpecReq == Init /\ [][NextReq]_vars

----------------------------------------------------------------------------
(* SpecClient: one browser on one room.  It loads the page, takes the id of *)
(* a rendered message as its cursor and then polls again and again, each    *)
(* time with the id of the last message it received.  It may close the      *)
(* socket of a poll on which it has received nothing and poll again with    *)
(* the cursor it has.  The server learns of the close only when the IOLoop  *)
(* reads the end of the stream (ReadEof); until then it goes on with the    *)
(* request as if the socket were open (ReqResume), and after it with the    *)
(* request the client left (ReqClose, ReqResume).                           *)

\* one message, a batch that fills the cache, a batch longer than the cache
ClientBatchSizes == {1, cache_size, cache_size + 1}

\* the client is in a poll whose Future is not resolved yet
InPoll == client.state = "polling" /\ ~fut[client.h].done

\* messages are published at any time; since counts those published outside
\* the polls of the client.  Single messages are published while the room is
\* new and once the cache is full
ClientPublish ==
    \E n \in ClientBatchSizes :
        /\ nextId - 1 + n <= cache_size + MaxClientOver
        /\ n = 1 => (nextId - 1) % cache_size < MaxClientOver
        /\ NewMessages(CacheRoom, CacheBatch(n))
        /\ client' = [client EXCEPT !.since = IF client.state = "off" \/ InPoll
                                              THEN @ ELSE @ + n]
        /\ UNCHANGED <<pub, req>>

\* MainHandler.get renders the cache; the cursor of the client is the id of the
\* newest or of the oldest message rendered
ClientStart ==
    /\ client.state = "off"
    /\ CacheRoom \in DOMAIN room
    /\ room[CacheRoom].cache # << >>
    /\ MainHandlerGet(CacheRoom)
    /\ \E i \in {1, Len(room[CacheRoom].cache)} :
          client' = [NoClient EXCEPT
                        !.state = "ready",
                        !.start = room[CacheRoom].cache[i].id,
                        !.cursor = room[CacheRoom].cache[i].id,
                        !.since = (nextId - 1) - room[CacheRoom].cache[i].id]
    /\ UNCHANGED <<pub, req>>

\* the client posts to /a/message/updates with its cursor; in_time records
\* that at most cache_size messages were published since its last poll ended,
\* in_reach that at most cache_size messages were published after its cursor
ClientPoll ==
    /\ client.state = "ready"
    /\ Len(fut) < MaxPolls
    /\ UpdatesPost(CacheRoom, client.cursor)
    /\ client' = [client EXCEPT
                    !.state = "polling",
                    !.h = Len(fut) + 1,
                    !.since = 0,
                    !.in_time = @ /\ client.since <= cache_size,
                    !.in_reach = @ /\ (nextId - 1) - client.cursor <= cache_size]
    /\ UNCHANGED pub

\* the client closes the socket of its poll, on which it has received nothing
\* (a response may have been written already): it is done with this poll and
\* keeps its cursor; the server has not read the end of the stream yet
ClientClose ==
    /\ client.state = "polling"
    /\ client.closes < MaxCloses
    /\ client' = [client EXCEPT !.state = "ready",
                                !.closing = @ \cup {client.h},
                                !.closes = @ + 1]
    /\ UNCHANGED <<room, fut, sub, cancelled, published, nextId, last, pub, req>>

\* the IOLoop reads the end of the stream of a socket the client closed: from
\* now on stream.closed() is true for a request that still waits; a request
\* that has returned is not told
ReadEof(h) ==
    /\ h \in client.closing
    /\ client' = [client EXCEPT !.closing = @ \ {h}]
    /\ IF req[h].state = "suspended"
       THEN StreamClose(h)
       ELSE UNCHANGED <<room, fut, sub, cancelled, published, nextId, last, req>>
    /\ UNCHANGED pub

ClientEof == \E h \in Handles : ReadEof(h)

\* the client gets the response that was written: it appends the messages to
\* what it has and moves its cursor to the last of them; on [] it keeps its
\* cursor
ClientReceive ==
    /\ client.state = "polling"
    /\ req[client.h].written
    /\ client' = [client EXCEPT
                    !.state = "ready",
                    !.got = @ \o req[client.h].body,
                    !.cursor = IF req[client.h].body = << >>
                               THEN @
                               ELSE req[client.h].body[Len(req[client.h].body)].id]
    /\ last' = Op("receive", CacheRoom, client.h, client.cursor, req[client.h].body, "none")
    /\ UNCHANGED <<room, fut, sub, cancelled, published, nextId, pub, req>>

NextClient ==
    \/ ClientPublish
    \/ ClientStart
    \/ ClientPoll
    \/ ClientClose
    \/ ClientEof
    \/ ClientReceive
    \/ ReqClose
    \/ ReqResume

SpecClient == Init /\ [][NextClient]_vars

----------------------------------------------------------------------------
(* Properties *)

\* the step just taken was operation op
Did(op) == last'.op = op

\* the ids of the messages of a list
Ids(ms) == {ms[i].id : i \in 1..Len(ms)}

\* the waiters of room r before it exists are none
WaitersOf(rm, r) == IF r \in DOMAIN rm THEN rm[r].waiters ELSE {}

CacheOf(rm, r) == IF r \in DOMAIN rm THEN rm[r].cache ELSE << >>

(* C1 *)

C1_Counts ==
    \A h \in Handles :
        sub[h].waiter => /\ fut[h].sets <= 1
                         /\ fut[h].done <=> fut[h].sets = 1

C1_Step ==
    \A h \in Handles :
        sub[h].waiter =>
            /\ fut[h].done => fut'[h] = fut[h]
            /\ (~fut[h].done /\ fut'[h].done) =>
                  \/ /\ Did("new_messages")
                     /\ last'.room = sub[h].room
                     /\ fut'[h].result = last'.msgs
                  \/ /\ Did("cancel_wait")
                     /\ last'.h = h
                     /\ fut'[h].result = << >>
            /\ (Did("new_messages") /\ last'.room = sub[h].room) => fut'[h].done
            /\ (Did("cancel_wait") /\ last'.h = h) => fut'[h].done

\* C1: a handle that wait_for_messages added to the waiters has set_result
\* called on it at most once, and exactly once as soon as a new_messages for
\* its room or a cancel_wait of it has run; the value it is resolved with is
\* the batch of that new_messages or the empty list of that cancel_wait, and
\* it never changes afterwards.
C1_ExactlyOnce == [] C1_Counts /\ [][C1_Step]_vars

\* one waiter resolved by a batch and another one by cancel_wait
C1_Witness ==
    \E h1, h2 \in Handles :
        /\ sub[h1].waiter /\ sub[h2].waiter
        /\ fut[h1].sets = 1 /\ fut[h1].result # << >>
        /\ fut[h2].sets = 1 /\ h2 \in cancelled
        /\ sub[h1].room = sub[h2].room

(* C2 *)

\* C2: cancel_wait of a handle that is not among the waiters of its room (it
\* was resolved by new_messages, by the replay of wait_for_messages or by an
\* earlier cancel_wait) ends without an error and changes neither a room nor
\* a Future.
C2_CancelIdempotent ==
    [][(Did("cancel_wait") /\ last'.h \notin WaitersOf(room, last'.room))
          => (last'.err = "none" /\ room' = room /\ fut' = fut)]_vars

(* C3 *)

\* C3: new_messages(room, batch) resolves every Future that is among the
\* waiters of the room when it is called with exactly the batch, once, and
\* leaves the room without waiters.
C3_PublishResolvesAll ==
    [][Did("new_messages") =>
          /\ \A h \in WaitersOf(room, last'.room) :
                fut'[h] = [done |-> TRUE, result |-> last'.msgs, sets |-> 1]
          /\ room'[last'.room].waiters = {}]_vars

\* two waiters of a room with history both hold the batch just published
C3_Witness ==
    /\ last.op = "new_messages"
    /\ last.msgs # << >>
    /\ Len(published[last.room]) > Len(last.msgs)
    /\ \E h1, h2 \in Handles :
          /\ h1 # h2
          /\ sub[h1].room = last.room /\ sub[h2].room = last.room
          /\ sub[h1].cursor = None /\ sub[h1].waiter /\ sub[h2].waiter
          /\ fut[h1].result = last.msgs /\ fut[h2].result = last.msgs

(* C4 *)

\* C4: the cache of every room holds at most cache_size messages.
C4_CacheBound == \A r \in DOMAIN room : Len(room[r].cache) <= cache_size

\* one batch longer than cache_size was just added to a cache that held messages
C4_Witness ==
    /\ last.op = "new_messages"
    /\ Len(last.msgs) > cache_size
    /\ Len(published[last.room]) > Len(last.msgs)
    /\ Len(room[last.room].cache) = cache_size

(* C5 *)

\* C5: the cache of a room is the last min(n, cache_size) of the n messages
\* ever published to it, in the order they were published.
C5_FifoRetention ==
    \A r \in DOMAIN room :
        LET n == Len(published[r])
            k == IF n < cache_size THEN n ELSE cache_size
        IN  room[r].cache = SubSeq(published[r], n - k + 1, n)

\* 205 messages were published: 200 are cached, the first of them is the sixth
C5_Witness ==
    /\ last.op = "new_messages"
    /\ Len(last.msgs) = 1
    /\ Len(published[CacheRoom]) = cache_size + 5
    /\ Len(room[CacheRoom].cache) = cache_size
    /\ room[CacheRoom].cache[1] = published[CacheRoom][6]

(* C6 *)

\* C6: wait_for_messages with the id of the message at position k of the
\* cache, k not the last position, returns a Future resolved with the
\* messages after position k in cache order, and changes no room.
C6_CursorReplay ==
    [][Did("wait_for_messages") =>
          \A k \in 1..(Len(CacheOf(room, last'.room)) - 1) :
              room[last'.room].cache[k].id = last'.cursor =>
                  /\ fut'[last'.h] =
                        [done |-> TRUE,
                         result |-> SubSeq(room[last'.room].cache, k + 1,
                                           Len(room[last'.room].cache)),
                         sets |-> 1]
                  /\ room' = room]_vars

\* history [m1, m2, m3] and cursor m1: the Future holds [m2, m3]
C6_Witness ==
    /\ last.op = "wait_for_messages"
    /\ Len(room[last.room].cache) = 3
    /\ room[last.room].cache[1].id = last.cursor
    /\ fut[last.h].done
    /\ fut[last.h].result = SubSeq(room[last.room].cache, 2, 3)
    /\ last.h \notin room[last.room].waiters

(* C7 *)

\* C7: wait_for_messages with a cursor that is the id of no cached message, on
\* a room whose cache is not empty, ends without error, returns a Future
\* resolved with the whole cache and changes no room.
C7_CursorMiss ==
    [][(/\ Did("wait_for_messages")
        /\ last'.cursor # None
        /\ CacheOf(room, last'.room) # << >>
        /\ last'.cursor \notin Ids(CacheOf(room, last'.room)))
          => /\ last'.err = "none"
             /\ fut'[last'.h] = [done |-> TRUE, result |-> room[last'.room].cache,
                                 sets |-> 1]
             /\ room' = room]_vars

\* the cursor is the id of a message that was published and evicted since
C7_Witness ==
    /\ last.op = "wait_for_messages"
    /\ last.cursor \in Ids(published[last.room])
    /\ last.cursor \notin Ids(room[last.room].cache)
    /\ fut[last.h].done
    /\ fut[last.h].result = room[last.room].cache
    /\ last.h \notin room[last.room].waiters

(* C8 *)

\* the call finds nothing to replay: no cursor, an empty cache, or the cursor
\* is the id of the newest message
NothingToReplay ==
    \/ last'.cursor = None
    \/ CacheOf(room, last'.room) = << >>
    \/ room[last'.room].cache[Len(room[last'.room].cache)].id = last'.cursor

C8_Step ==
    /\ (Did("wait_for_messages") /\ NothingToReplay) =>
          /\ last'.h \notin WaitersOf(room, last'.room)
          /\ room'[last'.room].waiters = WaitersOf(room, last'.room) \cup {last'.h}
          /\ \A r \in DOMAIN room' \ {last'.room} : room'[r] = room[r]
          /\ ~fut'[last'.h].done
    /\ \A h \in Handles :
          (sub[h].waiter /\ ~fut[h].done /\ fut'[h].done) =>
              \/ Did("new_messages") /\ last'.room = sub[h].room
              \/ Did("cancel_wait") /\ last'.h = h

\* C8: wait_for_messages that finds nothing to replay adds exactly its new
\* Future to the waiters of its room and returns it unresolved; a waiting
\* Future becomes resolved only in a new_messages to its room or a
\* cancel_wait of it.
C8_Suspends == [][C8_Step]_vars

\* a Future whose cursor is the newest message of a non-empty cache still
\* waits after a publish to the other room
C8_Witness ==
    \E h \in Handles :
        /\ ~fut[h].done
        /\ h \in room[sub[h].room].waiters
        /\ room[sub[h].room].cache # << >>
        /\ sub[h].cursor = room[sub[h].room].cache[Len(room[sub[h].room].cache)].id
        /\ last.op = "new_messages"
        /\ last.room # sub[h].room
        /\ last.msgs # << >>

(* C9 *)

C9_Step ==
    /\ (Did("cancel_wait") /\ last'.h \in WaitersOf(room, last'.room)) =>
          /\ last'.err = "none"
          /\ room'[last'.room].waiters = room[last'.room].waiters \ {last'.h}
          /\ fut'[last'.h] = [done |-> TRUE, result |-> << >>, sets |-> 1]
    /\ Did("new_messages") =>
          /\ last'.err = "none"
          /\ \A h \in cancelled :
                /\ fut'[h] = fut[h]
                /\ fut'[h] = [done |-> TRUE, result |-> << >>, sets |-> 1]

\* C9: cancel_wait of a waiting Future removes it from the waiters and
\* resolves it with the empty list; a later new_messages ends without error
\* and leaves that Future resolved once, with the empty list.
C9_CancelBeforePublish == [][C9_Step]_vars

\* a batch was published to the room of a cancelled waiter
C9_Witness ==
    /\ last.op = "new_messages"
    /\ last.msgs # << >>
    /\ \E h \in cancelled :
          /\ sub[h].room = last.room
          /\ fut[h].result = << >>
          /\ fut[h].sets = 1

(* C10 *)

C10_Step ==
    /\ \A r \in DOMAIN room : r \in DOMAIN room'
    /\ ~Did("cancel_wait") => last'.err = "none"
    /\ Did("render") =>
          /\ last'.room \in DOMAIN room => room' = room
          /\ last'.room \notin DOMAIN room =>
                /\ DOMAIN room' = DOMAIN room \cup {last'.room}
                /\ room'[last'.room] = [cache |-> << >>, waiters |-> {}]
                /\ \A r \in DOMAIN room : room'[r] = room[r]
    /\ Did("wait_for_messages") =>
          /\ room'[last'.room].cache = CacheOf(room, last'.room)
          /\ WaitersOf(room, last'.room) \subseteq room'[last'.room].waiters
    /\ (Did("new_messages") /\ Len(CacheOf(room, last'.room)) + Len(last'.msgs) <= cache_size) =>
          room'[last'.room].cache = CacheOf(room, last'.room) \o last'.msgs

\* C10: create_new_room on an existing name changes nothing, as MainHandler.get
\* calls it and as wait_for_messages and new_messages call it first (the cache
\* and the waiters they start from are the room's, not a new room's); on an
\* absent name it adds a room with empty cache and no waiters; it never fails.
C10_IdempotentRoom == [][C10_Step]_vars

\* create_new_room was just called on a room with a message and a waiter
C10_Witness ==
    /\ last.op = "render"
    /\ room[last.room].cache # << >>
    /\ room[last.room].waiters # {}

(* C11 *)

\* no Future is both unresolved and missing from the waiters of its room
C11_NoLostWaiter ==
    \A h \in Handles : ~fut[h].done => h \in WaitersOf(room, sub[h].room)

\* C11: every Future that wait_for_messages added to the waiters is eventually
\* resolved, given that a new_messages to its room or a cancel_wait of it
\* eventually happens while it waits; and no Future is ever unresolved and
\* absent from the waiters of its room.
C11_Liveness ==
    /\ [] C11_NoLostWaiter
    /\ \A h \in 1..MaxLiveHandles :
          (h \in Handles /\ sub[h].waiter) ~> (h \in Handles /\ fut[h].sets = 1)

\* a waiter was resolved after the last message the bound allows was published,
\* so by cancel_wait alone
C11_Witness ==
    /\ nextId - 1 = MaxLiveMsgs
    /\ last.op = "cancel_wait"
    /\ last.err = "none"
    /\ sub[last.h].waiter
    /\ fut[last.h].done
    /\ sub[last.h].cursor = MaxLiveMsgs

(* C12 *)

\* the cache of room r ends with the list ms
EndsWith(r, ms) ==
    /\ r \in DOMAIN room
    /\ Len(room[r].cache) >= Len(ms)
    /\ SubSeq(room[r].cache, Len(room[r].cache) - Len(ms) + 1, Len(room[r].cache)) = ms

\* C12: within one new_messages(room, batch), whenever a waiter has been
\* resolved by the call, the cache of the room already ends with the batch.
C12_AppendBeforeResolve ==
    (pub.pc # "idle" /\ pub.resolved # {}) => EndsWith(pub.room, pub.msgs)

(* C13 *)

C13_Inv ==
    /\ \A r \in DOMAIN room : \A h \in room[r].waiters :
          /\ h \in Handles
          /\ ~fut[h].done
          /\ sub[h].room = r
    /\ \A h \in Handles :
          ~fut[h].done => /\ sub[h].room \in DOMAIN room
                          /\ h \in room[sub[h].room].waiters

C13_Step ==
    \A h \in Handles :
        fut[h].done => /\ fut'[h].done
                       /\ \A r \in DOMAIN room' : h \notin room'[r].waiters

\* C13: between operations every Future in a room's waiters is unresolved and
\* is one wait_for_messages returned for that room; every unresolved Future
\* is in the waiters of the room it was asked for; a resolved Future stays
\* resolved and is in no room's waiters ever after.
C13_WaiterSet == [] C13_Inv /\ [][C13_Step]_vars

\* one Future of a room still waits, alone in the waiters, while another
\* Future of the same room holds messages
C13_Witness ==
    \E h1, h2 \in Handles :
        /\ sub[h1].room = sub[h2].room
        /\ ~fut[h1].done
        /\ room[sub[h1].room].waiters = {h1}
        /\ fut[h2].done
        /\ fut[h2].result # << >>
        /\ last.op = "render"

(* C15 *)

C15_Step ==
    /\ DOMAIN room' \subseteq DOMAIN room \cup {last'.room}
    /\ \A b \in DOMAIN room \ {last'.room} : b \in DOMAIN room' /\ room'[b] = room[b]
    /\ \A h \in Handles : sub[h].room # last'.room => fut'[h] = fut[h]

\* C15: an operation on one room (render, wait_for_messages, cancel_wait,
\* new_messages) leaves the cache and the waiters of every other room as they
\* were and resolves no Future of another room; "lobby" and "Lobby" are two
\* rooms.
C15_RoomIndependence == [][C15_Step]_vars

\* a batch published to "lobby" resolved the waiter of "lobby"; the waiter of
\* "Lobby" still waits and the caches of the two rooms differ
C15_Witness ==
    /\ last.op = "new_messages"
    /\ last.room = "lobby"
    /\ "Lobby" \in DOMAIN room
    /\ room["Lobby"].cache # << >>
    /\ room["Lobby"].cache # room["lobby"].cache
    /\ \E h1, h2 \in Handles :
          /\ sub[h1].room = "lobby" /\ fut[h1].result = last.msgs
          /\ sub[h2].room = "Lobby" /\ ~fut[h2].done
          /\ room["Lobby"].waiters = {h2}

(* C16 *)

C16_Step ==
    /\ Did("cancel_wait") =>
          /\ last'.err = "none"
          /\ \A r \in DOMAIN room' : last'.h \notin room'[r].waiters
    /\ \A h \in Handles :
          (req[h].stream_closed /\ req[h].state = "suspended" /\ req'[h].state = "finished")
              => ~req'[h].written

\* C16: when the connection of a long-poll request closes after the request
\* got its Future (still pending, or resolved by new_messages while the
\* request has not resumed), on_connection_close ends without error, the
\* Future is in no room's waiters afterwards, and the request finishes
\* without writing a response.
C16_Disconnect == [][C16_Step]_vars

(* C14 *)

\* what the client has received so far is exactly the messages published to
\* the room after its first cursor, up to its present cursor: each once, in
\* the order they were published, none skipped (in this room the id of a
\* message is its position among the published ones)
GapFree ==
    /\ client.start + Len(client.got) <= Len(published[CacheRoom])
    /\ client.got = SubSeq(published[CacheRoom], client.start + 1,
                           client.start + Len(client.got))
    /\ client.cursor = client.start + Len(client.got)

\* C14 as amended: a client that polls again and again with the id of the
\* last message it received has received the messages published after its
\* first cursor each once, in publish order, none skipped, provided at most
\* cache_size messages were published after its cursor whenever it started a
\* poll.
C14_GapFreeInReach == client.state # "off" /\ client.in_reach => GapFree

\* the client closed the socket of a poll that a batch of cache_size messages
\* resolved and got nothing from it (the request returned at the closed
\* stream); its next poll, the cursor evicted, was answered the whole cache
C14_Witness ==
    /\ client.in_reach
    /\ last.op = "receive"
    /\ Len(last.msgs) = cache_size
    /\ last.cursor \notin Ids(room[CacheRoom].cache)
    /\ ~sub[last.h].waiter
    /\ client.got = last.msgs
    /\ \E h \in Handles :
          /\ sub[h].waiter
          /\ fut[h].result = last.msgs
          /\ req[h].stream_closed
          /\ ~req[h].written

\* C14: the same, provided at most cache_size messages were published between
\* the end of one poll of the client (its Future resolved, or its socket
\* closed by the client) and the start of the next.
C14_GapFree == client.state # "off" /\ client.in_time => GapFree

====
